---- MODULE Spec2Model ----
(***************************************************************************)
(* Model of src/etl.py: the daily stock ETL pipeline.                      *)
(*                                                                         *)
(* main() runs extract_and_transform over the symbol list (raw-store       *)
(* lookup or API fetch, pydantic validation, pandas transform), then       *)
(* load_to_db (CREATE TABLE IF NOT EXISTS, then one transaction of         *)
(* INSERT IGNORE statements).  Exceptions that no handler inside the loop  *)
(* catches propagate to the `except Exception` of main().                  *)
(***************************************************************************)
EXTENDS Integers, Sequences, FiniteSets, TLC

(* ------------------------------ bounds -------------------------------- *)
\* number of pipeline runs explored
MaxRuns == 2
\* number of raw files an operator may drop into the data lake by hand
MaxPlaced == 2
\* longest "Time Series (Daily)" mapping handed to the transform on its own
MaxSeries == 3

(* ------------------------- program constants --------------------------- *)
symbols == <<"AAPL", "GOOG", "MSFT">>

SymbolSet == {symbols[k] : k \in 1..Len(symbols)}

(* ------------------------------ payloads ------------------------------- *)
\* A field value that is not a numeric string.
NaS == -1

\* The API's error / rate-limit object: {"Note": "..."}; neither key present.
NoteBody == [meta |-> FALSE, ts |-> FALSE, series |-> <<>>]
\* Both keys present, one quote whose "1. open" is not numeric.
BadQuote == [meta |-> TRUE, ts |-> TRUE,
             series |-> <<[date |-> 1, open |-> NaS, close |-> 101]>>]
\* Both keys present, "Time Series (Daily)" is {}.
EmptySeries == [meta |-> TRUE, ts |-> TRUE, series |-> <<>>]
\* The well-formed body of day d: the two latest trading days, newest first
\* as the API sends them; the close of a date is revised from day to day.
DailyBody(d) ==
    [meta |-> TRUE, ts |-> TRUE,
     series |-> <<[date |-> d + 1, open |-> 100, close |-> 100 + d],
                  [date |-> d, open |-> 100, close |-> 100 + d]>>]

\* what response.json() can return on day d
Payloads(d) == {NoteBody, EmptySeries, DailyBody(d)}

\* what a hand-placed file of day d can hold
LocalPayloads(d) == {BadQuote, DailyBody(d)}

(* ----------------------------- validation ------------------------------ *)
\* DailyStockData: every field must coerce to a number.
DailyStockData(q) == q.open # NaS /\ q.close # NaS

\* AlphaVantageResponse(**data): both aliased keys are required, every quote
\* of the mapping must be a DailyStockData.  FALSE stands for ValidationError.
AlphaVantageResponse(data) ==
    /\ data.meta
    /\ data.ts
    /\ \A k \in 1..Len(data.series) : DailyStockData(data.series[k])

(* ------------------------------ raw store ------------------------------ *)
filename(symbol, day_str) == <<symbol, day_str>>

(* ------------------------------ transform ------------------------------ *)
RECURSIVE InsertSorted(_, _)
InsertSorted(r, s) ==
    IF s = <<>> THEN <<r>>
    ELSE IF r.date < Head(s).date THEN <<r>> \o s
    ELSE <<Head(s)>> \o InsertSorted(r, Tail(s))

\* the frame is left in the order of the mapping
sort_valuesNone(s) == s

\* df.sort_values("date")
RECURSIVE sort_values(_)
sort_values(s) ==
    IF s = <<>> THEN <<>> ELSE InsertSorted(Head(s), sort_values(Tail(s)))

\* df.astype({...}) raises KeyError when the frame has no such columns,
\* which is the case for a frame built from an empty mapping.
TransformRaises(data) == data.series = <<>>

\* ((df['close'] - df['open']) / df['open']) * 100 on float64 columns, in
\* hundredths of a percent.  A float division by zero does not raise: it
\* gives nan for 0/0 and a signed infinity otherwise.
daily_change_percentage(open, close) ==
    IF open # 0
    THEN [kind |-> "finite", val |-> ((close - open) * 100 * 100) \div open]
    ELSE IF close = 0 THEN [kind |-> "nan", val |-> 0]
    ELSE IF close > 0 THEN [kind |-> "inf", val |-> 0]
    ELSE [kind |-> "-inf", val |-> 0]

Stamp(symbol, s) ==
    [k \in 1..Len(s) |->
        [symbol |-> symbol, date |-> s[k].date,
         open |-> s[k].open, close |-> s[k].close,
         daily_change_percentage |->
             daily_change_percentage(s[k].open, s[k].close)]]

\* lines 80-99: frame of the payload, sorted by date, symbol stamped.
Transform(symbol, data) == Stamp(symbol, sort_values(data.series))

RECURSIVE concat(_)
\* pd.concat(all_data, ignore_index=True)
concat(frames) ==
    IF frames = <<>> THEN <<>> ELSE Head(frames) \o concat(Tail(frames))

(* ------------------------------- loader -------------------------------- *)
\* UNIQUE (symbol, date)
Conflicts(t, r) ==
    \E k \in 1..Len(t) : t[k].symbol = r.symbol /\ t[k].date = r.date

\* a plain INSERT into a table without the unique key
InsertPlain(t, r) == Append(t, r)

\* INSERT ... ON DUPLICATE KEY UPDATE: the stored record takes the new values
InsertUpsert(t, r) ==
    IF Conflicts(t, r)
    THEN [k \in 1..Len(t) |->
             IF t[k].symbol = r.symbol /\ t[k].date = r.date THEN r ELSE t[k]]
    ELSE Append(t, r)

\* INSERT IGNORE INTO stock_daily_data ...
InsertIgnore(t, r) == IF Conflicts(t, r) THEN t ELSE Append(t, r)

RECURSIVE InsertRows(_, _, _)
\* the first n iterations of `for _, row in df.iterrows()`
InsertRows(t, df, n) ==
    IF n = 0 THEN t
    ELSE InsertIgnore(InsertRows(t, df, n - 1), df[n])

\* every statement commits on its own, nothing is rolled back
EndTransactionAutocommit(committed, working, raised) == working

\* leaving `with engine.begin() as conn` : commit on a normal exit,
\* rollback when the block raised.
EndTransaction(committed, working, raised) ==
    IF raised THEN committed ELSE working

VARIABLES
    day,            \* the calendar day of the wall clock
    files,          \* raw store, today's files: filename -> stored body
    placed,         \* number of files dropped in by hand
    table_exists,   \* stock_daily_data has been created
    db,             \* committed rows of stock_daily_data, in insertion order
    pc,             \* position of the run
    runs,           \* runs started so far
    today_str,      \* date.today() taken at line 35
    fetch_from_api, \* the flag of the current run
    i,              \* index of the current symbol in symbols
    raw_data,       \* <<body>> in hand for the current symbol, else <<>>
    from_api,       \* the body in hand came from requests.get
    all_data,       \* list of frames accumulated so far
    final_df,       \* the frame handed to load_to_db
    report,         \* what main() printed last about the run
    active,         \* calls of job() that have not returned yet
    h               \* history of the current run (observation only)

vars == <<day, files, placed, table_exists, db, pc, runs, today_str,
          fetch_from_api, i, raw_data, from_api, all_data, final_df,
          report, active, h>>

NoHistory ==
    [fetched      |-> {},    \* symbols for which requests.get was issued
     cached       |-> {},    \* symbols read from an existing file
     written      |-> {},    \* files this run created
     unpaused     |-> 0,     \* API calls issued since the last pause / start
     paused       |-> {},    \* symbols after whose fetch the pause happened
     validated    |-> {},    \* symbols whose body passed line 74
     rejected     |-> {},    \* symbols whose body raised ValidationError
     fetch_error  |-> {},    \* symbols whose request or decoding raised
     xform_error  |-> {},    \* symbols whose transform raised
     entered      |-> {},    \* symbols whose loop iteration started
     order        |-> <<>>,  \* the symbols in the order their iteration started
     skipped      |-> {},    \* symbols skipped for lack of a local file
     create_issued |-> 0,    \* CREATE TABLE statements sent
     create_failed |-> FALSE, \* CREATE TABLE raised
     insert_issued |-> FALSE, \* an INSERT statement was sent
     reported     |-> <<>>,  \* <<n>> once "Inserted n rows" was printed
     body         |-> << >>, \* symbol -> the body resolved for it
     load_calls   |-> 0,     \* calls of load_to_db
     load_failed  |-> FALSE, \* load_to_db caught SQLAlchemyError
     insert_raised |-> FALSE, \* the insert transaction raised
     some_stmt    |-> FALSE, \* an insert statement had executed by then
     inserted_ok  |-> FALSE, \* the insert transaction committed
     db_before    |-> <<>>]  \* the table when load_to_db was entered

Init ==
    /\ day = 1
    /\ files = << >>
    /\ placed = 0
    /\ table_exists = FALSE
    /\ db = <<>>
    /\ pc = "idle"
    /\ runs = 0
    /\ today_str = 1
    /\ fetch_from_api = TRUE
    /\ i = 1
    /\ raw_data = <<>>
    /\ from_api = FALSE
    /\ all_data = <<>>
    /\ final_df = <<>>
    /\ report = "none"
    /\ active = 0
    /\ h = NoHistory

\* the file check always answers "no file"
existsNever(f) == FALSE

\* os.path.exists(filename)
exists(f) == f \in DOMAIN files

symbol == symbols[i]

(* ----------------------------- environment ----------------------------- *)
\* The wall clock passes midnight.  today_str is read once per run, so a
\* tick during a run is observed exactly like a tick right after it, and a
\* day on which no run started leaves no trace.  A file name carries the day
\* and the clock only moves forward, so the files of earlier days are never
\* opened again: files tracks the files of the current day only.
Tick ==
    /\ pc = "idle"
    /\ day <= runs
    /\ day' = day + 1
    /\ files' = << >>
    /\ UNCHANGED <<placed, table_exists, db, pc, runs, today_str,
                   fetch_from_api, i, raw_data, from_api, all_data,
                   final_df, report, active, h>>

\* Someone drops a raw file for today into the data lake (the local data
\* that FETCH_FROM_API=False reads).  Existing files are left alone.  A run
\* looks at a symbol's file only in that symbol's iteration, so a file that
\* arrives during a run is seen like one that arrived before the run or
\* after it, except between the two looks of lines 42 and 66.
PlaceLocalFile ==
    /\ placed < MaxPlaced
    /\ pc \in {"idle", "local"}
    /\ \E s \in SymbolSet, body \in LocalPayloads(day) :
          /\ pc = "local" => s = symbol
          /\ ~exists(filename(s, day))
          /\ files' = files @@ (filename(s, day) :> body)
    /\ placed' = placed + 1
    /\ UNCHANGED <<active, day, table_exists, db, pc, runs, today_str,
                   fetch_from_api, i, raw_data, from_api, all_data,
                   final_df, report, h>>

(* -------------------------------- main --------------------------------- *)
\* what StartRun does once the scheduler has called job()
EnterMain ==
    /\ runs < MaxRuns
    /\ runs' = runs + 1
    /\ active' = active + 1
    /\ today_str' = day
    /\ \E flag \in BOOLEAN : fetch_from_api' = flag
    /\ i' = 1
    /\ raw_data' = <<>>
    /\ from_api' = FALSE
    /\ all_data' = <<>>
    /\ final_df' = <<>>
    /\ report' = "none"
    /\ h' = NoHistory
    /\ pc' = "loop"
    /\ UNCHANGED <<day, files, placed, table_exists, db>>

\* a scheduler that runs a due job in a thread of its own
StartRunThreaded == EnterMain

\* lines 231-232, 219-221, 183-207: schedule.run_pending() calls job() in
\* the scheduler's own thread, so only when no job is running; credentials
\* are present, the engine is created, the loop is entered.
StartRun ==
    /\ pc = "idle"
    /\ EnterMain

\* the message is printed but main() goes on
MissingCredentialsIgnored ==
    /\ pc = "idle"
    /\ runs < MaxRuns
    /\ runs' = runs + 1
    /\ active' = active + 1
    /\ today_str' = day
    /\ report' = "no_credentials"
    /\ h' = NoHistory
    /\ pc' = "loop"
    /\ UNCHANGED <<day, files, placed, table_exists, db, fetch_from_api, i,
                   raw_data, from_api, all_data, final_df>>

\* lines 184-193: DB_USER, DB_PASS, DB_HOST or DB_NAME is missing; main()
\* prints the message and returns.
MissingCredentials ==
    /\ pc = "idle"
    /\ runs < MaxRuns
    /\ runs' = runs + 1
    /\ active' = active + 1
    /\ report' = "no_credentials"
    /\ h' = NoHistory
    /\ pc' = "done"
    /\ UNCHANGED <<day, files, placed, table_exists, db, today_str,
                   fetch_from_api, i, raw_data, from_api, all_data, final_df>>

\* lines 195-200: create_engine raises SQLAlchemyError; main() returns.
EngineFails ==
    /\ pc = "idle"
    /\ runs < MaxRuns
    /\ runs' = runs + 1
    /\ active' = active + 1
    /\ report' = "no_engine"
    /\ h' = NoHistory
    /\ pc' = "done"
    /\ UNCHANGED <<day, files, placed, table_exists, db, today_str,
                   fetch_from_api, i, raw_data, from_api, all_data, final_df>>

\* An exception leaves extract_and_transform: `except Exception` of main
\* prints it, `finally` disposes the engine; load_to_db is not reached.
Unexpected ==
    /\ report' = "unexpected"
    /\ pc' = "done"

\* the same symbol is taken again
ContinueRetry ==
    /\ i' = i
    /\ raw_data' = <<>>
    /\ from_api' = FALSE
    /\ pc' = "loop"

\* `continue`
Continue ==
    /\ i' = i + 1
    /\ raw_data' = <<>>
    /\ from_api' = FALSE
    /\ pc' = "loop"

(* ----------------------- extract_and_transform ------------------------- *)
\* lines 42-45: the file of (symbol, today) exists; read it, no request.
CacheHit ==
    /\ pc = "loop"
    /\ i <= Len(symbols)
    /\ exists(filename(symbol, today_str))
    /\ raw_data' = <<files[filename(symbol, today_str)]>>
    /\ from_api' = FALSE
    /\ h' = [h EXCEPT !.entered = @ \cup {symbol}, !.order = Append(@, symbol),
                      !.cached = @ \cup {symbol},
                      !.body = (symbol :> files[filename(symbol, today_str)]) @@ @]
    /\ pc' = "validate"
    /\ UNCHANGED <<active, day, files, placed, table_exists, db, runs, today_str,
                   fetch_from_api, i, all_data, final_df, report>>

\* lines 46-50: no file, fetching enabled; requests.get and response.json()
\* return a body.
Fetch ==
    /\ pc = "loop"
    /\ i <= Len(symbols)
    /\ ~exists(filename(symbol, today_str))
    /\ fetch_from_api
    /\ \E body \in Payloads(today_str) :
          /\ raw_data' = <<body>>
          /\ h' = [h EXCEPT !.entered = @ \cup {symbol}, !.order = Append(@, symbol),
                            !.fetched = @ \cup {symbol},
                            !.unpaused = @ + 1,
                            !.body = (symbol :> body) @@ @]
    /\ from_api' = TRUE
    /\ pc' = "fetched"
    /\ UNCHANGED <<active, day, files, placed, table_exists, db, runs, today_str,
                   fetch_from_api, i, all_data, final_df, report>>

\* lines 49-50: requests.get raises (connection error, timeout) or
\* response.json() raises on a body that is not JSON; nothing in
\* extract_and_transform catches it.
FetchRaises ==
    /\ pc = "loop"
    /\ i <= Len(symbols)
    /\ ~exists(filename(symbol, today_str))
    /\ fetch_from_api
    /\ h' = [h EXCEPT !.entered = @ \cup {symbol}, !.order = Append(@, symbol),
                      !.fetched = @ \cup {symbol},
                      !.unpaused = @ + 1,
                      !.fetch_error = @ \cup {symbol}]
    /\ Unexpected
    /\ UNCHANGED <<active, day, files, placed, table_exists, db, runs, today_str,
                   fetch_from_api, i, raw_data, from_api, all_data,
                   final_df>>

\* the fetched body is written first and validated afterwards
PersistThenValidate ==
    /\ pc = "fetched"
    /\ files' = (filename(symbol, today_str) :> raw_data[1]) @@ files
    /\ IF AlphaVantageResponse(raw_data[1])
       THEN /\ h' = [h EXCEPT !.written = @ \cup {filename(symbol, today_str)},
                              !.unpaused = 0,
                              !.paused = @ \cup {symbol}]
            /\ pc' = "validate"
            /\ UNCHANGED <<i, raw_data, from_api>>
       ELSE /\ h' = [h EXCEPT !.written = @ \cup {filename(symbol, today_str)},
                              !.rejected = @ \cup {symbol}]
            /\ Continue
    /\ UNCHANGED <<active, day, placed, table_exists, db, runs, today_str,
                   fetch_from_api, all_data, final_df, report>>

\* lines 52-63: the fetched body is validated; a rejected body is dropped
\* with `continue`, an accepted one is written to the file and the run
\* sleeps 15 seconds.
ValidateFetched ==
    /\ pc = "fetched"
    /\ IF AlphaVantageResponse(raw_data[1])
       THEN /\ files' = (filename(symbol, today_str) :> raw_data[1]) @@ files
            /\ h' = [h EXCEPT !.written = @ \cup {filename(symbol, today_str)},
                              !.unpaused = 0,
                              !.paused = @ \cup {symbol}]
            /\ pc' = "validate"
            /\ UNCHANGED <<i, raw_data, from_api>>
       ELSE /\ h' = [h EXCEPT !.rejected = @ \cup {symbol}]
            /\ Continue
            /\ UNCHANGED files
    /\ UNCHANGED <<active, day, placed, table_exists, db, runs, today_str,
                   fetch_from_api, all_data, final_df, report>>

\* lines 64-65: no file at line 42 and fetching disabled.
LocalBranch ==
    /\ pc = "loop"
    /\ i <= Len(symbols)
    /\ ~exists(filename(symbol, today_str))
    /\ ~fetch_from_api
    /\ h' = [h EXCEPT !.entered = @ \cup {symbol}, !.order = Append(@, symbol)]
    /\ pc' = "local"
    /\ UNCHANGED <<active, day, files, placed, table_exists, db, runs, today_str,
                   fetch_from_api, i, raw_data, from_api, all_data,
                   final_df, report>>

\* the file is opened without the second look: open() raises
LocalReadRaises ==
    /\ pc = "local"
    /\ IF exists(filename(symbol, today_str))
       THEN /\ raw_data' = <<files[filename(symbol, today_str)]>>
            /\ h' = [h EXCEPT !.cached = @ \cup {symbol},
                              !.body = (symbol :> files[filename(symbol, today_str)]) @@ @]
            /\ pc' = "validate"
            /\ UNCHANGED <<i, from_api, report>>
       ELSE /\ h' = [h EXCEPT !.skipped = @ \cup {symbol}]
            /\ Unexpected
            /\ UNCHANGED <<i, raw_data, from_api>>
    /\ UNCHANGED <<active, day, files, placed, table_exists, db, runs, today_str,
                   fetch_from_api, all_data, final_df>>

\* lines 66-70: second look at the file; skip the symbol when it is still
\* missing, read it otherwise.
LocalRead ==
    /\ pc = "local"
    /\ IF exists(filename(symbol, today_str))
       THEN /\ raw_data' = <<files[filename(symbol, today_str)]>>
            /\ h' = [h EXCEPT !.cached = @ \cup {symbol},
                              !.body = (symbol :> files[filename(symbol, today_str)]) @@ @]
            /\ pc' = "validate"
            /\ UNCHANGED <<i, from_api>>
       ELSE /\ h' = [h EXCEPT !.skipped = @ \cup {symbol}]
            /\ Continue
    /\ UNCHANGED <<active, day, files, placed, table_exists, db, runs, today_str,
                   fetch_from_api, all_data, final_df, report>>

\* the ValidationError of line 74 is not caught
ValidateUncaught ==
    /\ pc = "validate"
    /\ IF AlphaVantageResponse(raw_data[1])
       THEN /\ h' = [h EXCEPT !.validated = @ \cup {symbol}]
            /\ pc' = "transform"
            /\ UNCHANGED <<i, raw_data, from_api, report>>
       ELSE /\ h' = [h EXCEPT !.rejected = @ \cup {symbol}]
            /\ Unexpected
            /\ UNCHANGED <<i, raw_data, from_api>>
    /\ UNCHANGED <<active, day, files, placed, table_exists, db, runs, today_str,
                   fetch_from_api, all_data, final_df>>

\* only a body that came from the API is validated, a file's body is trusted
ValidateFetchedOnly ==
    /\ pc = "validate"
    /\ IF from_api => AlphaVantageResponse(raw_data[1])
       THEN /\ h' = [h EXCEPT !.validated = @ \cup {symbol}]
            /\ pc' = "transform"
            /\ UNCHANGED <<i, raw_data, from_api>>
       ELSE /\ h' = [h EXCEPT !.rejected = @ \cup {symbol}]
            /\ Continue
    /\ UNCHANGED <<active, day, files, placed, table_exists, db, runs, today_str,
                   fetch_from_api, all_data, final_df, report>>

\* lines 73-77: validation of the body in hand, whatever its origin.
Validate ==
    /\ pc = "validate"
    /\ IF AlphaVantageResponse(raw_data[1])
       THEN /\ h' = [h EXCEPT !.validated = @ \cup {symbol}]
            /\ pc' = "transform"
            /\ UNCHANGED <<i, raw_data, from_api>>
       ELSE /\ h' = [h EXCEPT !.rejected = @ \cup {symbol}]
            /\ Continue
    /\ UNCHANGED <<active, day, files, placed, table_exists, db, runs, today_str,
                   fetch_from_api, all_data, final_df, report>>

\* lines 80-102: build, coerce, sort, derive, stamp, append.  An exception
\* of pandas is not caught inside the loop.
TransformStep ==
    /\ pc = "transform"
    /\ IF TransformRaises(raw_data[1])
       THEN /\ h' = [h EXCEPT !.xform_error = @ \cup {symbol}]
            /\ Unexpected
            /\ UNCHANGED <<i, raw_data, from_api, all_data>>
       ELSE /\ all_data' = Append(all_data, Transform(symbol, raw_data[1]))
            /\ Continue
            /\ UNCHANGED <<h, report>>
    /\ UNCHANGED <<active, day, files, placed, table_exists, db, runs, today_str,
                   fetch_from_api, final_df>>

\* lines 104-107 and line 208: the loop is over, the frames are
\* concatenated (empty frame when there is none) and handed to load_to_db.
LoopEnd ==
    /\ pc = "loop"
    /\ i > Len(symbols)
    /\ final_df' = concat(all_data)
    /\ pc' = "load"
    /\ UNCHANGED <<active, day, files, placed, table_exists, db, runs, today_str,
                   fetch_from_api, i, raw_data, from_api, all_data,
                   report, h>>

(* ----------------------------- load_to_db ------------------------------ *)
\* the empty frame is sent to the database and the statement raises
LoadEmptyFails ==
    /\ pc = "load"
    /\ final_df = <<>>
    /\ h' = [h EXCEPT !.load_calls = @ + 1, !.db_before = db,
                      !.insert_issued = TRUE, !.load_failed = TRUE]
    /\ pc' = "inspect"
    /\ UNCHANGED <<active, day, files, placed, table_exists, db, runs, today_str,
                   fetch_from_api, i, raw_data, from_api, all_data,
                   final_df, report>>

\* lines 111-113: empty frame, nothing is sent to the database.
LoadEmpty ==
    /\ pc = "load"
    /\ final_df = <<>>
    /\ h' = [h EXCEPT !.load_calls = @ + 1, !.db_before = db]
    /\ pc' = "inspect"
    /\ UNCHANGED <<active, day, files, placed, table_exists, db, runs, today_str,
                   fetch_from_api, i, raw_data, from_api, all_data,
                   final_df, report>>

\* the handler of the CREATE TABLE error does not return
CreateTableNoReturn ==
    /\ pc = "load"
    /\ final_df # <<>>
    /\ \E ok \in BOOLEAN :
          /\ table_exists' = (table_exists \/ ok)
          /\ h' = [h EXCEPT !.load_calls = @ + 1, !.db_before = db,
                            !.create_issued = @ + 1,
                            !.create_failed = ~ok,
                            !.load_failed = ~ok]
    /\ pc' = "insert"
    /\ UNCHANGED <<active, day, files, placed, db, runs, today_str,
                   fetch_from_api, i, raw_data, from_api, all_data,
                   final_df, report>>

\* lines 115-136: CREATE TABLE IF NOT EXISTS in its own transaction; an
\* SQLAlchemyError is printed and load_to_db returns.
CreateTable ==
    /\ pc = "load"
    /\ final_df # <<>>
    /\ \E ok \in BOOLEAN :
          IF ok
          THEN /\ table_exists' = TRUE
               /\ h' = [h EXCEPT !.load_calls = @ + 1, !.db_before = db,
                                 !.create_issued = @ + 1]
               /\ pc' = "insert"
          ELSE /\ h' = [h EXCEPT !.load_calls = @ + 1, !.db_before = db,
                                 !.create_issued = @ + 1,
                                 !.create_failed = TRUE,
                                 !.load_failed = TRUE]
               /\ pc' = "inspect"
               /\ UNCHANGED table_exists
    /\ UNCHANGED <<active, day, files, placed, db, runs, today_str,
                   fetch_from_api, i, raw_data, from_api, all_data,
                   final_df, report>>

\* lines 138-158: one transaction around the insert loop.  n statements
\* execute; the block raises SQLAlchemyError at statement n+1, or at the
\* commit when n is the whole frame, or not at all.
InsertAll ==
    /\ pc = "insert"
    /\ \E n \in 0..Len(final_df), raised \in BOOLEAN :
          /\ n < Len(final_df) => raised
          /\ db' = EndTransaction(db, InsertRows(db, final_df, n), raised)
          /\ h' = [h EXCEPT !.load_failed = raised, !.insert_raised = raised,
                            !.some_stmt = (n >= 1),
                            !.insert_issued = TRUE,
                            !.reported = IF raised THEN <<>>
                                         ELSE <<Len(final_df)>>,
                            !.inserted_ok = ~raised]
    /\ pc' = "inspect"
    /\ UNCHANGED <<active, day, files, placed, table_exists, runs, today_str,
                   fetch_from_api, i, raw_data, from_api, all_data,
                   final_df, report>>

\* lines 209-216: inspect_database reads only and catches its own errors;
\* main prints that the pipeline completed successfully and disposes the engine.
Finish ==
    /\ pc = "inspect"
    /\ report' = "success"
    /\ pc' = "done"
    /\ UNCHANGED <<active, day, files, placed, table_exists, db, runs, today_str,
                   fetch_from_api, i, raw_data, from_api, all_data,
                   final_df, h>>

\* lines 219-223: main() has returned None to job(), its locals are gone;
\* job() appends a line to etl_log.txt whatever the run did.
Return ==
    /\ pc = "done"
    /\ pc' = "idle"
    /\ i' = 1
    /\ raw_data' = <<>>
    /\ from_api' = FALSE
    /\ all_data' = <<>>
    /\ final_df' = <<>>
    /\ today_str' = 1
    /\ fetch_from_api' = TRUE
    /\ report' = "none"
    /\ active' = active - 1
    /\ h' = NoHistory
    /\ UNCHANGED <<day, files, placed, table_exists, db, runs>>

Next ==
    \/ Tick
    \/ PlaceLocalFile
    \/ StartRun
    \/ MissingCredentials
    \/ EngineFails
    \/ CacheHit
    \/ Fetch
    \/ FetchRaises
    \/ ValidateFetched
    \/ LocalBranch
    \/ LocalRead
    \/ Validate
    \/ TransformStep
    \/ LoopEnd
    \/ LoadEmpty
    \/ CreateTable
    \/ InsertAll
    \/ Finish
    \/ Return

Spec == Init /\ [][Next]_vars

(* ------------------- the transform on its own ------------------------- *)
Quotes == [date : 1..MaxSeries, open : {0, 100}, close : {0, 102}]

\* the mappings of at most MaxSeries dates, in every iteration order
SeriesSet ==
    {s \in UNION {[1..n -> Quotes] : n \in 0..MaxSeries} :
        \A j, k \in 1..Len(s) : s[j].date = s[k].date => j = k}

ValidBodies == {[meta |-> TRUE, ts |-> TRUE, series |-> s] : s \in SeriesSet}

\* The run stands at line 80 with a validated body in hand, read from a
\* local file for symbol i; the symbols before it had no file and were skipped.
InitT ==
    /\ day = 1
    /\ placed = 1
    /\ table_exists = FALSE
    /\ db = <<>>
    /\ pc = "transform"
    /\ runs = 1
    /\ today_str = 1
    /\ fetch_from_api = FALSE
    /\ from_api = FALSE
    /\ all_data = <<>>
    /\ final_df = <<>>
    /\ report = "none"
    /\ active = 1
    /\ i \in 1..Len(symbols)
    /\ \E body \in ValidBodies :
          /\ raw_data = <<body>>
          /\ files = (filename(symbols[i], 1) :> body)
          /\ h = [NoHistory EXCEPT
                    !.entered = {symbols[k] : k \in 1..i},
                    !.order = SubSeq(symbols, 1, i),
                    !.skipped = {symbols[k] : k \in 1..(i - 1)},
                    !.cached = {symbols[i]},
                    !.validated = {symbols[i]},
                    !.body = (symbols[i] :> body)]

NextT == TransformStep

SpecT == InitT /\ [][NextT]_vars

TypeOK ==
    /\ day \in 1..(MaxRuns + 1)
    /\ runs \in 0..MaxRuns
    /\ placed \in 0..MaxPlaced
    /\ pc \in {"idle", "loop", "fetched", "local", "validate", "transform",
               "load", "insert", "inspect", "done"}
    /\ i \in 1..(Len(symbols) + 1)
    /\ Len(raw_data) <= 1
    /\ report \in {"none", "success", "unexpected", "no_credentials",
                   "no_engine"}
    /\ active \in 0..1

(* ======================== properties of the run ======================== *)
IsPrefix(a, b) == Len(a) <= Len(b) /\ SubSeq(b, 1, Len(a)) = a

Unique(t) ==
    \A j, k \in 1..Len(t) :
        (t[j].symbol = t[k].symbol /\ t[j].date = t[k].date) => j = k

Valid(s) == s \in DOMAIN h.body /\ AlphaVantageResponse(h.body[s])

RECURSIVE RowsOfValidated(_)
\* the frames of the symbols from position k on whose resolved body is valid
RowsOfValidated(k) ==
    IF k > Len(symbols) THEN <<>>
    ELSE (IF Valid(symbols[k]) THEN Transform(symbols[k], h.body[symbols[k]])
          ELSE <<>>) \o RowsOfValidated(k + 1)

InLoad == pc \in {"load", "insert", "inspect"}

C2_RawStoreIdempotent ==
    [][ /\ \A f \in DOMAIN files :
              f[2] = day' => (f \in DOMAIN files' /\ files'[f] = files[f])
        /\ \A s \in SymbolSet :
              (s \in h'.fetched /\ s \notin h.fetched)
                 => filename(s, today_str) \notin DOMAIN files ]_vars

C2_Witness ==
    /\ runs = 2
    /\ placed = 0
    /\ pc = "load"
    /\ h.cached = SymbolSet
    /\ h.fetched = {}
    /\ h.written = {}

\* C3: duplicate suppression.  The table never holds two records with the
\* same (symbol, date), and an insert transaction whose rows are all stored
\* already leaves the table, hence its row count, unchanged.
C3_DuplicateSuppression ==
    /\ [](Unique(db))
    /\ [][ (pc = "insert"
            /\ \A k \in 1..Len(final_df) : Conflicts(db, final_df[k]))
           => db' = db ]_vars

C3_Witness ==
    /\ runs = 2
    /\ pc = "inspect"
    /\ h.inserted_ok
    /\ Len(final_df) >= 2
    /\ db = h.db_before
    /\ Len(db) >= 2

\* C4: validation covers every origin.  The transform is only reached with a
\* body that passed validation in this run, and every accumulated row belongs
\* to a symbol whose resolved body is valid, whether it was fetched, read on
\* a cache hit or read by the fetch-disabled branch.
C4_ValidatedBeforeTransform ==
    /\ pc = "transform" =>
          /\ AlphaVantageResponse(raw_data[1])
          /\ symbol \in h.validated
    /\ \A j \in 1..Len(all_data) : \A k \in 1..Len(all_data[j]) :
          /\ Valid(all_data[j][k].symbol)
          /\ all_data[j][k].symbol \in h.validated

C4_Witness ==
    /\ \E s \in h.cached \cap h.rejected : ~Valid(s)
    /\ \E s \in h.cached \cap h.validated :
          \E j \in 1..Len(all_data) : all_data[j][1].symbol = s

\* C5 as stated: the fetched body is in the raw store before it is validated,
\* so a file exists when the validation of a fetched body starts and after
\* a fetched body was rejected.
C5_PersistedBeforeValidation ==
    /\ pc = "fetched" => exists(filename(symbol, today_str))
    /\ \A s \in h.fetched \cap h.rejected : exists(filename(s, today_str))

\* C5 amended: the fetched body is validated first and written only after it
\* passed: nothing has been written for the symbol when the validation of a
\* fetched body starts, every file a run wrote holds a valid body, a fetched
\* body that validated has been written and a rejected one never is.
C5_PersistedOnlyAfterValidation ==
    /\ pc = "fetched" => filename(symbol, today_str) \notin h.written
    /\ \A f \in h.written : f \in DOMAIN files /\ AlphaVantageResponse(files[f])
    /\ \A s \in h.fetched \cap h.validated : filename(s, today_str) \in h.written
    /\ \A s \in h.fetched \cap h.rejected : filename(s, today_str) \notin h.written

C5_Witness ==
    /\ h.fetched \cap h.rejected # {}
    /\ h.written # {}
    /\ \E s \in h.fetched \cap h.rejected : ~exists(filename(s, today_str))

\* C6: rate limiting.  No two requests of a run without a pause between
\* them, and no pause for a symbol served from a file.
C6_PauseBetweenFetches ==
    /\ h.unpaused <= 1
    /\ h.paused \cap h.cached = {}

\* C7: a failed request or decoding skips the symbol only: the run is not
\* cut short, every symbol gets its iteration and load_to_db is called.
C7_FetchErrorSkipsSymbol ==
    h.fetch_error # {} =>
        /\ report # "unexpected"
        /\ pc = "done" => (h.entered = SymbolSet /\ h.load_calls = 1)

\* C8: a failed transform skips the symbol only: the run is not cut short,
\* every symbol gets its iteration and load_to_db is called.
C8_TransformErrorSkipsSymbol ==
    h.xform_error # {} =>
        /\ report # "unexpected"
        /\ pc = "done" => (h.entered = SymbolSet /\ h.load_calls = 1)

\* C9: a run whose load failed (schema creation or insert) is never
\* reported as completed successfully.
C9_StorageErrorSurfaced == report = "success" => ~h.load_failed

\* C10: the load is one transaction.  Records stored before the call keep
\* their place and values; when the inserts raised the table is what it was
\* before the call; when they did not, every row of the frame is stored and
\* every record the call added is a row of the frame.
C10_TransactionalLoad ==
    /\ IsPrefix(h.db_before, db)
    /\ h.insert_raised => db = h.db_before
    /\ h.inserted_ok =>
          /\ \A k \in 1..Len(final_df) : Conflicts(db, final_df[k])
          /\ \A k \in (Len(h.db_before) + 1)..Len(db) :
                \E j \in 1..Len(final_df) : final_df[j] = db[k]

C10_Witness ==
    /\ pc = "inspect"
    /\ h.insert_raised
    /\ h.some_stmt
    /\ Len(h.db_before) >= 2
    /\ \E k \in 1..Len(final_df) : ~Conflicts(db, final_df[k])

LoopPhase == pc \in {"loop", "fetched", "local", "validate", "transform"}

\* C11: the table is append-only.  Every step leaves every stored record in
\* its place with its values, and a record it adds has a (symbol, date) that
\* was not stored, also when the frame carries a stored (symbol, date) with
\* other prices.
C11_AppendOnly ==
    [][ /\ IsPrefix(db, db')
        /\ \A k \in (Len(db) + 1)..Len(db') : ~Conflicts(db, db'[k]) ]_vars

C11_Witness ==
    /\ pc = "inspect"
    /\ h.inserted_ok
    /\ Len(db) > Len(h.db_before)
    /\ \E j \in 1..Len(final_df), k \in 1..Len(h.db_before) :
          /\ db[k].symbol = final_df[j].symbol
          /\ db[k].date = final_df[j].date
          /\ db[k].close # final_df[j].close

\* C12: load_to_db with an empty frame raises nothing, sends no INSERT (and
\* no other statement) and leaves the table as it was.
C12_EmptyLoadNoop ==
    (h.load_calls >= 1 /\ final_df = <<>>) =>
        /\ ~h.load_failed
        /\ ~h.insert_issued
        /\ h.create_issued = 0
        /\ db = h.db_before
        /\ report # "unexpected"

C12_Witness ==
    /\ pc = "inspect"
    /\ final_df = <<>>
    /\ h.load_calls = 1
    /\ h.rejected # {}
    /\ db # <<>>

\* C13: missing credentials end the run before any work: when main() has
\* printed the message the run is over with no request, no file written and
\* no statement sent, and the step that prints it leaves the raw store and
\* the table untouched.
C13_ConfigErrorBeforeWork ==
    /\ [](report = "no_credentials" => (pc = "done" /\ h = NoHistory))
    /\ [][ (report' = "no_credentials" /\ report # "no_credentials")
           => (files' = files /\ db' = db /\ table_exists' = table_exists) ]_vars

C13_Witness ==
    /\ report = "no_credentials"
    /\ pc = "done"
    /\ runs = 2
    /\ db # <<>>

\* C14: fetching disabled and no file.  The symbol is skipped: the loop has
\* moved past it, no request was issued for it, no file was written for it,
\* and the run was not cut short at it; a run with fetching disabled issues
\* no request and writes no file at all.
C14_NoLocalFileSkipped ==
    /\ \A k \in 1..Len(symbols) :
          symbols[k] \in h.skipped =>
              /\ k < i
              /\ symbols[k] \notin h.fetched
              /\ filename(symbols[k], today_str) \notin h.written
    /\ (report = "unexpected" /\ i <= Len(symbols)) => symbols[i] \notin h.skipped
    /\ h.skipped # {} => (h.fetched = {} /\ h.written = {})
    /\ (InLoad /\ h.skipped # {}) => h.entered = SymbolSet

C14_Witness ==
    /\ pc = "load"
    /\ "AAPL" \in h.skipped
    /\ "GOOG" \in h.validated
    /\ final_df # <<>>

C16_NoFaultValue ==
    \A j \in 1..Len(all_data) : \A k \in 1..Len(all_data[j]) :
        LET r == all_data[j][k]
        IN  /\ r.daily_change_percentage.kind = "finite"
            /\ r.open > 0 =>
                  /\ r.daily_change_percentage.val * r.open
                        <= (r.close - r.open) * 100 * 100
                  /\ (r.close - r.open) * 100 * 100
                        < (r.daily_change_percentage.val + 1) * r.open

\* C17: the count printed as inserted is the number of records the call
\* added to the table.
C17_ReportedCountIsAdded ==
    h.reported # <<>> => h.reported[1] = Len(db) - Len(h.db_before)

\* C18: one run takes the symbols one at a time in list order, each once,
\* and calls load_to_db once, after the last symbol; no statement is sent
\* while the loop runs.
C18_SequentialThenLoad ==
    /\ IsPrefix(h.order, symbols)
    /\ LoopPhase =>
          /\ h.load_calls = 0
          /\ h.create_issued = 0
          /\ ~h.insert_issued
          /\ Len(h.order) \in {i - 1, i}
    /\ h.load_calls <= 1
    /\ h.load_calls = 1 => h.order = symbols
    /\ InLoad => (h.order = symbols /\ i = Len(symbols) + 1)
    /\ report = "success" => h.load_calls = 1

C18_Witness ==
    /\ pc = "inspect"
    /\ h.order = symbols
    /\ h.load_calls = 1
    /\ h.insert_issued
    /\ h.inserted_ok

\* C19: a failed CREATE TABLE ends the load: no INSERT is sent, the
\* statement was sent once, the table is what it was.
C19_CreateFailureFatal ==
    h.create_failed =>
        /\ ~h.insert_issued
        /\ h.create_issued = 1
        /\ db = h.db_before
        /\ pc \in {"inspect", "done"}

C19_Witness ==
    /\ h.create_failed
    /\ pc = "inspect"
    /\ Len(final_df) >= 2
    /\ ~table_exists

\* C20: at most one call of job() is in progress at any time, and a run is
\* in progress exactly while one is.
C20_OneRunAtATime ==
    /\ active <= 1
    /\ active = 1 <=> pc # "idle"

C20_Witness ==
    /\ active = 1
    /\ runs = 2
    /\ pc = "transform"
    /\ db # <<>>
====
